---- MODULE Spec2Model ----
\* Model of pytorch_wrapper/system.py: the System facade (train,
\* train_on_multi_gpus, evaluate, to) and the _Trainer engine (run,
\* _train_epoch, _train_batch, _train_evaluation).
EXTENDS Integers, Sequences, FiniteSets, TLC

\* ---------------------------------------------------------------- bounds
MaxBatches == 5
MaxAccum == 3
MaxEpochs == 2
MaxEvalBatches == 1
SmallBatches == 2
MaxTrainCalls == 2

\* ------------------------------------------------------- optional values
\* Python's None and a present value are kept apart: None is the empty
\* tuple, a present value x is the one-element tuple <<x>>.
None == <<>>
Some(x) == <<x>>
Val(o) == o[1]

DatasetNames == <<"val", "test">>
EvaluatorNames == <<"acc", "f1">>

Prefixes(s) == {SubSeq(s, 1, m) : m \in 0..Len(s)}
Range(s) == {s[j] : j \in 1..Len(s)}

\* ------------------------------------------------------------- callbacks
TrainingCallback == [type |-> "TrainingCallback", nb_of_epochs |-> 0]
StoppingCriterionCallback == [type |-> "StoppingCriterionCallback", nb_of_epochs |-> 0]
NumberOfEpochsStoppingCriterionCallback(nb) ==
    [type |-> "NumberOfEpochsStoppingCriterionCallback", nb_of_epochs |-> nb]

\* A test for the class itself that misses its subclasses.
IsExactlyStoppingCriterion(cb) == cb.type = "StoppingCriterionCallback"

\* issubclass(type(cb), StoppingCriterionCallback)
IsStoppingCriterion(cb) ==
    cb.type \in {"StoppingCriterionCallback", "NumberOfEpochsStoppingCriterionCallback"}

HookNames ==
    {"on_training_start", "on_training_end", "on_epoch_start", "on_epoch_end",
     "on_batch_start", "post_predict", "post_loss_calculation",
     "post_backward_calculation", "pre_optimization_step", "on_batch_end",
     "on_evaluation_start", "on_evaluation_end"}

\* The values a callback may leave in context['stop_training'] when one of
\* its hooks runs.  A plain callback observes only; the epoch-count criterion
\* stops at the end of epoch nb_of_epochs - 1; any other stopping criterion
\* may raise the flag in any hook.
CallbackStopValues(cb, hook, stop, epoch) ==
    IF cb.type = "NumberOfEpochsStoppingCriterionCallback"
    THEN IF hook = "on_epoch_end" /\ epoch = cb.nb_of_epochs - 1 THEN {TRUE} ELSE {stop}
    ELSE IF cb.type = "StoppingCriterionCallback" THEN {stop, TRUE}
    ELSE {stop}

\* The callback lists a caller passes.
CallbackArgs ==
    {None,
     Some(<<>>),
     Some(<<TrainingCallback>>),
     Some(<<StoppingCriterionCallback>>),
     Some(<<TrainingCallback, StoppingCriterionCallback>>),
     Some(<<NumberOfEpochsStoppingCriterionCallback(MaxEpochs), TrainingCallback>>)}

\* ------------------------------------------------------------------ state
VARIABLES
    entry,                      \* the public method the caller invoked
    pc,                         \* position in the code
    \* arguments of the call
    train_data_loader,          \* len(train_data_loader)
    gradient_accumulation_steps,
    evaluation_data_loaders,    \* None or Some(sequence of dataset names)
    evaluators,                 \* None or Some(sequence of evaluator names)
    eval_len,                   \* number of batches of an evaluation loader
    callbacks_arg,              \* the caller's callbacks object
    train_calls,                \* _Trainer objects built so far
    cuda_available,             \* torch.cuda.is_available()
    multi_gpu_output_device,    \* None or Some(device)
    param_keys,                 \* state_dict keys of the unwrapped model
    strict,                     \* load_model_state's strict argument
    \* System
    model,                      \* [wrapped, training, device]
    _device,
    temp_device,
    \* _Trainer
    callbacks,                  \* self.callbacks
    stop_training, _current_epoch, _results_history,
    current_batch, current_output, current_loss,
    \* locals
    cbIdx,                      \* position of the "for callback in" loop
    i,                          \* batch index of _train_epoch
    perform_opt_step,
    dsIdx, current_results,     \* _train_evaluation
    evIdx, evBatch, results,    \* System.evaluate
    evaluator_acc,              \* evaluator name -> steps accumulated since reset
    returned,                   \* the value the entry call returned
    \* save_model_state / load_model_state
    saved_file,                 \* None or Some(the state written to f)
    loader,                     \* the System that loads: [wrapped, params]
    model_state,                \* load_model_state's local model_state
    invalid_keys,               \* None or Some([missing_keys, unexpected_keys])
    \* observations
    pre_device,                 \* System device when the call was made
    callbacks_given,            \* the callbacks argument as the caller built it
    run_result,                 \* the value trainer.run() returned
    opt_steps,                  \* batch indices of this epoch's optimizer.step() calls
    backward_calls,             \* backward() calls since the last optimizer.step()
    step_groups,                \* backward_calls at each optimizer.step() of the epoch
    hookLog,                    \* hook points fired since the epoch began
    hookCalls,                  \* the callbacks called at them, hook by hook
    batchLog,                   \* events of the current batch step
    training_end_calls,         \* per callback: on_training_end invocations
    training_start_calls,
    evaluator_calls,            \* per evaluator: calls since evaluate began
    epochs_completed            \* number of _train_epoch calls that returned

argVars == <<entry, train_data_loader, gradient_accumulation_steps,
             evaluation_data_loaders, evaluators, eval_len, cuda_available,
             multi_gpu_output_device, pre_device,
             callbacks_given, param_keys, strict,
             saved_file, loader, model_state, invalid_keys>>
sysVars == <<model, _device, temp_device>>
ctxVars == <<stop_training, _current_epoch, _results_history,
             current_batch, current_output, current_loss>>
cbVars == <<callbacks_arg, callbacks, train_calls>>
batchVars == <<i, perform_opt_step, opt_steps, backward_calls, step_groups, batchLog>>
evalVars == <<dsIdx, current_results, evIdx, evBatch, results,
              evaluator_acc, evaluator_calls>>
obsVars == <<run_result, hookLog, hookCalls, training_end_calls, training_start_calls,
             epochs_completed>>

vars == <<pc, cbIdx, returned, argVars, sysVars, ctxVars, cbVars, batchVars,
          evalVars, obsVars>>

\* Optional sequences of distinct names taken in order from names.
OptionalNameLists(names) ==
    {None} \cup {Some(s) : s \in Prefixes(names)}

NoCalls == [e \in Range(EvaluatorNames) |-> [reset |-> 0, step |-> 0, calculate |-> 0]]

\* The argument combinations explored.  Long epochs are run with the plain
\* configurations (no evaluation, a deterministic or the default criterion);
\* every combination of callbacks and evaluation collaborators is run on
\* short epochs; the multi-GPU entry delegates to train on short epochs.
\* Arguments a method does not take are fixed.
LongEpochArgs ==
    /\ entry = "train"
    /\ callbacks_arg \in
          {None, Some(<<NumberOfEpochsStoppingCriterionCallback(MaxEpochs), TrainingCallback>>)}
    /\ evaluation_data_loaders = None /\ evaluators = None /\ eval_len = 0
    /\ ~cuda_available /\ multi_gpu_output_device = None /\ _device = "cpu"

ShortEpochArgs ==
    /\ entry = "train"
    /\ train_data_loader <= SmallBatches
    /\ gradient_accumulation_steps <= SmallBatches
    /\ ~(evaluation_data_loaders # None /\ evaluators # None) => eval_len = 0
    /\ ~cuda_available /\ multi_gpu_output_device = None /\ _device = "cpu"

MultiGpuArgs ==
    /\ entry = "train_on_multi_gpus"
    /\ train_data_loader <= 1
    /\ gradient_accumulation_steps = 1
    /\ callbacks_arg \in {None, Some(<<StoppingCriterionCallback>>)}
    /\ \/ evaluation_data_loaders = None /\ evaluators = None /\ eval_len = 0
       \/ /\ evaluation_data_loaders = Some(<<"val">>)
          /\ evaluators = Some(<<"acc">>)
          /\ eval_len = 1

EvaluateArgs ==
    /\ entry = "evaluate"
    /\ evaluators # None
    /\ train_data_loader = 0 /\ gradient_accumulation_steps = 1
    /\ evaluation_data_loaders = None /\ callbacks_arg = None
    /\ ~cuda_available /\ multi_gpu_output_device = None

\* ------------------------------------------------ parameter state keys
\* A state_dict key is the sequence of its characters.
ModulePrefix == <<"m", "o", "d", "u", "l", "e", ".">>
WeightKey == <<"w">>
BiasKey == <<"b">>

\* The key sets of the models explored: one parameter, two parameters, and
\* a model whose own sub-module is named "module".
ParamKeySets ==
    {{WeightKey}, {WeightKey, BiasKey}, {ModulePrefix \o WeightKey}}

\* The parameter values of the model that is saved, and of a model freshly
\* built with key set keys.
TrainedParams(keys) == [k \in keys |-> <<"trained", k>>]
FreshParams(keys) == [k \in keys |-> <<"fresh", k>>]

SaveLoadArgs ==
    /\ entry = "save_model_state"
    /\ train_data_loader = 0 /\ gradient_accumulation_steps = 1
    /\ evaluation_data_loaders = None /\ evaluators = None /\ eval_len = 0
    /\ callbacks_arg = None
    /\ ~cuda_available /\ multi_gpu_output_device = None /\ _device = "cpu"

\* The other methods run on an unwrapped one-parameter model and touch no
\* state file.
NoStateFileArgs ==
    /\ ~model.wrapped
    /\ param_keys = {WeightKey}
    /\ strict
    /\ loader = [wrapped |-> FALSE, params |-> FreshParams({WeightKey})]

ArgsInScope ==
    \/ (LongEpochArgs \/ ShortEpochArgs \/ MultiGpuArgs \/ EvaluateArgs) /\ NoStateFileArgs
    \/ SaveLoadArgs

\* The methods that run the training engine.
Training == {"train", "train_on_multi_gpus"}

\* System.__init__ (model on `device`, inference mode) followed by the
\* caller's choice of method and arguments.
\* A halt flag that is already raised when the context is created.
InitialStopTrainingRaised == TRUE

\* self.training_context['stop_training'] = False
InitialStopTraining == FALSE

\* self.training_context['_current_epoch'] = -1
InitialEpoch == -1

Init ==
    /\ entry \in {"train", "train_on_multi_gpus", "evaluate", "save_model_state"}
    /\ pc = entry
    /\ LET \* the values of an argument: `values` for the methods that take
           \* it, the fixed value `other` for the rest
           OnlyFor(methods, values, other) ==
               IF entry \in methods THEN values ELSE {other}
       IN
          /\ train_data_loader \in OnlyFor(Training, 0..MaxBatches, 0)
          /\ gradient_accumulation_steps \in OnlyFor(Training, 1..MaxAccum, 1)
          /\ evaluation_data_loaders \in OnlyFor(Training, OptionalNameLists(DatasetNames), None)
          /\ evaluators \in OnlyFor(Training \cup {"evaluate"}, OptionalNameLists(EvaluatorNames), None)
          /\ eval_len \in OnlyFor(Training \cup {"evaluate"}, 0..MaxEvalBatches, 0)
          /\ callbacks_arg \in OnlyFor(Training, CallbackArgs, None)
          /\ callbacks_given = callbacks_arg
          /\ train_calls = 0
          /\ cuda_available \in OnlyFor({"train_on_multi_gpus"}, BOOLEAN, FALSE)
          /\ multi_gpu_output_device \in
                OnlyFor({"train_on_multi_gpus"}, {None, Some("cuda:1")}, None)
          /\ _device \in {"cpu", "cuda"}
          /\ pre_device = _device
          /\ model \in {[wrapped |-> w, training |-> FALSE, device |-> _device] :
                           w \in OnlyFor({"save_model_state"}, BOOLEAN, FALSE)}
          /\ param_keys \in OnlyFor({"save_model_state"}, ParamKeySets, {WeightKey})
          /\ strict \in OnlyFor({"save_model_state"}, BOOLEAN, TRUE)
          /\ loader \in {[wrapped |-> w, params |-> FreshParams(keys)] :
                            w \in OnlyFor({"save_model_state"}, BOOLEAN, FALSE),
                            keys \in OnlyFor({"save_model_state"}, ParamKeySets, {WeightKey})}
          /\ saved_file = None /\ model_state = None /\ invalid_keys = None
          /\ temp_device = None
          /\ callbacks = <<>>
          /\ stop_training = InitialStopTraining
          /\ _current_epoch = InitialEpoch
          /\ _results_history = <<>>
          /\ current_batch = None /\ current_output = None /\ current_loss = None
          /\ cbIdx = 1 /\ i = 0 /\ perform_opt_step = FALSE
          /\ dsIdx = 1 /\ current_results = <<>>
          /\ evIdx = 1 /\ evBatch = 0 /\ results = <<>>
          /\ evaluator_acc = [e \in Range(EvaluatorNames) |-> 0]
          /\ returned = None
          /\ run_result = None
          /\ opt_steps = <<>>
          /\ backward_calls = 0 /\ step_groups = <<>>
          /\ hookLog = <<>> /\ batchLog = <<>>
          /\ hookCalls = <<>>
          /\ training_end_calls = <<>> /\ training_start_calls = <<>>
          /\ evaluator_calls = NoCalls
          /\ epochs_completed = 0
          /\ ArgsInScope

\* ------------------------------------------------------------ System.to
\* System.to: the model is moved and the device recorded.
To(m, device) == [m EXCEPT !.device = device]

\* --------------------------------------------------- _Trainer.__init__
\* A variant whose injected criterion stops after two epochs.
DefaultCallbackTwoEpochs == NumberOfEpochsStoppingCriterionCallback(2)

\* The criterion the constructor injects.
DefaultCallback == NumberOfEpochsStoppingCriterionCallback(1)

\* self.callbacks after the constructor ran on the callbacks argument.
TrainerCallbacks(arg) ==
    IF arg = None THEN <<DefaultCallback>>
    ELSE IF \E j \in 1..Len(Val(arg)) : IsStoppingCriterion(Val(arg)[j]) THEN Val(arg)
    ELSE Append(Val(arg), DefaultCallback)

\* System.train builds the _Trainer (a fresh training context, the callbacks
\* list completed in place) and enters run(), whose first loop fires
\* on_training_start.
Train ==
    /\ pc = "train"
    /\ callbacks' = TrainerCallbacks(callbacks_arg)
    /\ callbacks_arg' = IF callbacks_arg = None THEN None ELSE Some(callbacks')
    /\ train_calls' = train_calls + 1
    /\ stop_training' = InitialStopTraining
    /\ _current_epoch' = InitialEpoch
    /\ _results_history' = <<>>
    /\ current_batch' = None /\ current_output' = None /\ current_loss' = None
    /\ pc' = "on_training_start" /\ cbIdx' = 1
    /\ hookLog' = <<>>
    /\ hookCalls' = <<>>
    /\ training_start_calls' = [j \in 1..Len(callbacks') |-> 0]
    /\ training_end_calls' = [j \in 1..Len(callbacks') |-> 0]
    /\ epochs_completed' = 0
    /\ UNCHANGED <<returned, argVars, sysVars, batchVars, evalVars, run_result>>

\* ------------------------------------------------------ the hook loops
BatchHooks ==
    {"on_batch_start", "post_predict", "post_loss_calculation",
     "post_backward_calculation", "pre_optimization_step", "on_batch_end"}

\* The "for callback in self.callbacks" loop of hook point h has finished.
HookDone(h) == pc = h /\ cbIdx > Len(callbacks)

\* An iteration that takes the callbacks from the end of the list.
CallbackAtReversed(cbs, idx) == cbs[Len(cbs) + 1 - idx]

\* for callback in self.callbacks: the callback of the idx-th iteration.
CallbackAt(cbs, idx) == cbs[idx]

\* One iteration of a "for callback in self.callbacks" loop: the callback's
\* hook runs on the training context.
FireCallback ==
    /\ pc \in HookNames
    /\ cbIdx <= Len(callbacks)
    /\ \E s \in CallbackStopValues(CallbackAt(callbacks, cbIdx), pc,
                                    stop_training, _current_epoch) :
           stop_training' = s
    /\ cbIdx' = cbIdx + 1
    /\ hookLog' = IF cbIdx = 1 THEN Append(hookLog, pc) ELSE hookLog
    /\ hookCalls' = Append(hookCalls, [hook |-> pc, callback |-> CallbackAt(callbacks, cbIdx)])
    /\ batchLog' = IF cbIdx = 1 /\ pc \in BatchHooks THEN Append(batchLog, pc) ELSE batchLog
    /\ training_start_calls' =
          IF pc = "on_training_start"
          THEN [training_start_calls EXCEPT ![cbIdx] = @ + 1] ELSE training_start_calls
    /\ training_end_calls' =
          IF pc = "on_training_end"
          THEN [training_end_calls EXCEPT ![cbIdx] = @ + 1] ELSE training_end_calls
    /\ UNCHANGED <<pc, returned, argVars, sysVars, cbVars, evalVars, run_result,
                   epochs_completed, i, perform_opt_step, opt_steps,
                   backward_calls, step_groups,
                   _current_epoch, _results_history,
                   current_batch, current_output, current_loss>>

\* ---------------------------------------------------------- _Trainer.run
\* The places from which control reaches the "while" test of run().
AtWhile ==
    \/ pc = "while"
    \/ HookDone("on_training_start")
    \/ HookDone("on_evaluation_end")

\* A variant of the loop test that does not read the halt flag.
LoopConditionAlways(stop) == TRUE

\* while not self.training_context['stop_training']
LoopCondition(stop) == ~stop

\* An increment that passes over an epoch index.
EpochAfterNext(epoch) == epoch + 2

\* self.training_context['_current_epoch'] += 1
NextEpoch(epoch) == epoch + 1

\* The loop test passes and _train_epoch begins: the epoch index advances,
\* the model enters training mode, on_epoch_start is next.
RunWhile ==
    /\ AtWhile
    /\ LoopCondition(stop_training)
    /\ _current_epoch + 1 < MaxEpochs
    /\ _current_epoch' = NextEpoch(_current_epoch)
    /\ model' = [model EXCEPT !.training = TRUE]
    /\ pc' = "on_epoch_start" /\ cbIdx' = 1
    /\ hookLog' = <<>>
    /\ hookCalls' = <<>>
    /\ opt_steps' = <<>>
    /\ backward_calls' = 0 /\ step_groups' = <<>>
    /\ UNCHANGED <<returned, argVars, _device, temp_device, cbVars, evalVars,
                   stop_training, _results_history, current_batch,
                   current_output, current_loss, i, perform_opt_step, batchLog,
                   run_result, training_end_calls, training_start_calls,
                   epochs_completed>>

\* The loop test fails: on_training_end is next.
RunFinish ==
    /\ AtWhile
    /\ ~LoopCondition(stop_training)
    /\ pc' = "on_training_end" /\ cbIdx' = 1
    /\ UNCHANGED <<returned, argVars, sysVars, ctxVars, cbVars, batchVars,
                   evalVars, obsVars>>

\* A variant that leaves the model in training mode.
ModeAfterRunTraining == TRUE

\* The mode run() leaves the model in.
ModeAfterRun == FALSE

\* run() puts the model in inference mode and returns the results history;
\* train() returns it to its caller.
RunReturn ==
    /\ HookDone("on_training_end")
    /\ model' = [model EXCEPT !.training = ModeAfterRun]
    /\ run_result' = Some(_results_history)
    /\ IF entry = "train_on_multi_gpus"
       THEN pc' = "mg_restore" /\ UNCHANGED returned
       ELSE pc' = "done" /\ returned' = Some(_results_history)
    /\ UNCHANGED <<cbIdx, argVars, _device, temp_device, ctxVars, cbVars,
                   batchVars, evalVars, hookLog, hookCalls, training_end_calls,
                   training_start_calls, epochs_completed>>

\* -------------------------------------------------- _Trainer._train_epoch
\* After on_epoch_start: the gradients are cleared and the batch loop starts.
EpochSetup ==
    /\ HookDone("on_epoch_start")
    /\ i' = 0
    /\ pc' = "for_batch"
    /\ UNCHANGED <<cbIdx, returned, argVars, sysVars, ctxVars, cbVars,
                   perform_opt_step, opt_steps, backward_calls, step_groups,
                   batchLog, evalVars, obsVars>>

\* A variant that steps after every k-th batch instead of on every k-th index.
PerformOptStepAfterK(idx, k, n) == ((idx + 1) % k = 0) \/ (idx = n - 1)

\* perform_opt_step of batch index `idx` out of `n` with accumulation count k.
PerformOptStep(idx, k, n) == (idx % k = 0) \/ (idx = n - 1)

\* The loop yields batch i: the step flag is computed and _train_batch
\* publishes the batch.
NextBatch ==
    /\ pc = "for_batch"
    /\ i < train_data_loader
    /\ perform_opt_step' = PerformOptStep(i, gradient_accumulation_steps, train_data_loader)
    /\ current_batch' = Some(i)
    /\ batchLog' = <<>>
    /\ pc' = "on_batch_start" /\ cbIdx' = 1
    /\ UNCHANGED <<returned, argVars, sysVars, cbVars, i, opt_steps,
                   backward_calls, step_groups, evalVars,
                   obsVars, stop_training, _current_epoch, _results_history,
                   current_output, current_loss>>

\* A variant that leaves the batch loop without running the on_epoch_end loop.
EpochLoopEndSkipsHook ==
    /\ pc = "for_batch"
    /\ i >= train_data_loader
    /\ pc' = "on_epoch_end" /\ cbIdx' = Len(callbacks) + 1
    /\ UNCHANGED <<returned, argVars, sysVars, ctxVars, cbVars, batchVars,
                   evalVars, obsVars>>

\* A variant whose batch loop also ends as soon as the halt flag is set.
EpochLoopEndOnStop ==
    /\ pc = "for_batch"
    /\ (i >= train_data_loader \/ stop_training)
    /\ pc' = "on_epoch_end" /\ cbIdx' = 1
    /\ UNCHANGED <<returned, argVars, sysVars, ctxVars, cbVars, batchVars,
                   evalVars, obsVars>>

\* The loop is exhausted: on_epoch_end is next.
EpochLoopEnd ==
    /\ pc = "for_batch"
    /\ i >= train_data_loader
    /\ pc' = "on_epoch_end" /\ cbIdx' = 1
    /\ UNCHANGED <<returned, argVars, sysVars, ctxVars, cbVars, batchVars,
                   evalVars, obsVars>>

\* -------------------------------------------------- _Trainer._train_batch
\* predict_batch: the output is published and the batch cleared.
Forward ==
    /\ HookDone("on_batch_start")
    /\ current_output' = Some(<<"output", i>>)
    /\ current_batch' = None
    /\ batchLog' = Append(batchLog, "forward")
    /\ pc' = "post_predict" /\ cbIdx' = 1
    /\ UNCHANGED <<returned, argVars, sysVars, cbVars, i, perform_opt_step,
                   opt_steps, backward_calls, step_groups, evalVars, obsVars,
                   stop_training, _current_epoch,
                   _results_history, current_loss>>

\* calculate_loss: the loss is published and the output cleared.
CalculateLoss ==
    /\ HookDone("post_predict")
    /\ current_loss' = Some(<<"loss", i>>)
    /\ current_output' = None
    /\ batchLog' = Append(batchLog, "loss")
    /\ pc' = "post_loss_calculation" /\ cbIdx' = 1
    /\ UNCHANGED <<returned, argVars, sysVars, cbVars, i, perform_opt_step,
                   opt_steps, backward_calls, step_groups, evalVars, obsVars,
                   stop_training, _current_epoch,
                   _results_history, current_batch>>

\* current_loss.backward()
Backward ==
    /\ HookDone("post_loss_calculation")
    /\ batchLog' = Append(batchLog, "backward")
    /\ backward_calls' = backward_calls + 1
    /\ pc' = "post_backward_calculation" /\ cbIdx' = 1
    /\ UNCHANGED <<returned, argVars, sysVars, ctxVars, cbVars, i,
                   perform_opt_step, opt_steps, step_groups, evalVars, obsVars>>

\* A variant that enters the optimization branch on every batch.
AfterBackwardHooksAlways(step) == "pre_optimization_step"

\* Where the "if perform_opt_step" test leads.
AfterBackwardHooks(step) ==
    IF step THEN "pre_optimization_step" ELSE "on_batch_end"

\* if perform_opt_step: the pre_optimization_step loop, else on_batch_end.
OptBranch ==
    /\ HookDone("post_backward_calculation")
    /\ pc' = AfterBackwardHooks(perform_opt_step)
    /\ cbIdx' = 1
    /\ UNCHANGED <<returned, argVars, sysVars, ctxVars, cbVars, batchVars,
                   evalVars, obsVars>>

\* optimizer.step() then optimizer.zero_grad()
OptimizerStep ==
    /\ HookDone("pre_optimization_step")
    /\ opt_steps' = Append(opt_steps, i)
    /\ step_groups' = Append(step_groups, backward_calls)
    /\ backward_calls' = 0
    /\ batchLog' = batchLog \o <<"optimizer.step", "optimizer.zero_grad">>
    /\ pc' = "on_batch_end" /\ cbIdx' = 1
    /\ UNCHANGED <<returned, argVars, sysVars, ctxVars, cbVars, i,
                   perform_opt_step, evalVars, obsVars>>

\* After on_batch_end the loss is cleared and the batch loop advances.
\* A batch end that leaves the loss in the context.
BatchEndKeepsLoss ==
    /\ HookDone("on_batch_end")
    /\ i' = i + 1
    /\ pc' = "for_batch"
    /\ UNCHANGED <<cbIdx, returned, argVars, sysVars, cbVars, perform_opt_step,
                   opt_steps, backward_calls, step_groups, batchLog, evalVars,
                   obsVars, stop_training, current_loss,
                   _current_epoch, _results_history, current_batch, current_output>>

BatchEnd ==
    /\ HookDone("on_batch_end")
    /\ current_loss' = None
    /\ i' = i + 1
    /\ pc' = "for_batch"
    /\ UNCHANGED <<cbIdx, returned, argVars, sysVars, cbVars, perform_opt_step,
                   opt_steps, backward_calls, step_groups, batchLog, evalVars,
                   obsVars, stop_training,
                   _current_epoch, _results_history, current_batch, current_output>>

\* --------------------------------------------- _Trainer._train_evaluation
\* A test that looks at the evaluation data loaders only.
EvaluationLoadersOnly == evaluation_data_loaders # None

\* self.evaluation_data_loaders is not None and self.evaluators is not None
EvaluationConfigured == evaluation_data_loaders # None /\ evaluators # None

\* _train_epoch returns after on_epoch_end; _train_evaluation tests whether
\* both evaluation collaborators are present.
TrainEvaluation ==
    /\ HookDone("on_epoch_end")
    /\ epochs_completed' = epochs_completed + 1
    /\ IF EvaluationConfigured
       THEN pc' = "on_evaluation_start" /\ cbIdx' = 1
       ELSE pc' = "while" /\ UNCHANGED cbIdx
    /\ UNCHANGED <<returned, argVars, sysVars, ctxVars, cbVars, batchVars,
                   evalVars, run_result, hookLog, hookCalls, training_end_calls,
                   training_start_calls>>

\* current_results = {} and the loop over the evaluation data loaders starts.
EvalDatasetsBegin ==
    /\ HookDone("on_evaluation_start")
    /\ current_results' = <<>>
    /\ dsIdx' = 1
    /\ pc' = "for_dataset"
    /\ UNCHANGED <<cbIdx, returned, argVars, sysVars, ctxVars, cbVars, batchVars,
                   evIdx, evBatch, results, evaluator_acc, evaluator_calls, obsVars>>

\* ------------------------------------------------------- System.evaluate
\* A variant of evaluate that puts the model in training mode.
ModeInEvaluateTraining == TRUE

\* self.model.train(False)
ModeInEvaluate == FALSE

\* The first statement of evaluate: the model enters inference mode.
EvaluateBegin ==
    /\ model' = [model EXCEPT !.training = ModeInEvaluate]
    /\ evaluator_calls' = NoCalls
    /\ evIdx' = 1
    /\ pc' = "ev_reset"

\* The loop yields the next evaluation data loader: evaluate is called on it.
ForDataset ==
    /\ pc = "for_dataset"
    /\ dsIdx <= Len(Val(evaluation_data_loaders))
    /\ EvaluateBegin
    /\ UNCHANGED <<cbIdx, returned, argVars, _device, temp_device, ctxVars, cbVars,
                   batchVars, dsIdx, current_results, evBatch, results,
                   evaluator_acc, obsVars>>

\* A caller invokes System.evaluate directly.
Evaluate ==
    /\ pc = "evaluate"
    /\ EvaluateBegin
    /\ UNCHANGED <<cbIdx, returned, argVars, _device, temp_device, ctxVars, cbVars,
                   batchVars, dsIdx, current_results, evBatch, results,
                   evaluator_acc, obsVars>>

CountCall(calls, e, op) == [calls EXCEPT ![e][op] = @ + 1]

\* A variant whose first loop passes over the evaluators without resetting.
EvaluatorResetSkipped ==
    /\ pc = "ev_reset"
    /\ evIdx <= Len(Val(evaluators))
    /\ evIdx' = evIdx + 1
    /\ UNCHANGED <<pc, cbIdx, returned, argVars, sysVars, ctxVars, cbVars, batchVars,
                   dsIdx, current_results, evBatch, results, evaluator_acc,
                   evaluator_calls, obsVars>>

\* evaluators[evaluator_name].reset()
EvaluatorReset ==
    /\ pc = "ev_reset"
    /\ evIdx <= Len(Val(evaluators))
    /\ evaluator_acc' = [evaluator_acc EXCEPT ![Val(evaluators)[evIdx]] = 0]
    /\ evaluator_calls' = CountCall(evaluator_calls, Val(evaluators)[evIdx], "reset")
    /\ evIdx' = evIdx + 1
    /\ UNCHANGED <<pc, cbIdx, returned, argVars, sysVars, ctxVars, cbVars, batchVars,
                   dsIdx, current_results, evBatch, results, obsVars>>

\* The reset loop is exhausted: the loop over the data loader starts.
EvalBatchesBegin ==
    /\ pc = "ev_reset"
    /\ evIdx > Len(Val(evaluators))
    /\ evBatch' = 0
    /\ pc' = "ev_batch"
    /\ UNCHANGED <<cbIdx, returned, argVars, sysVars, ctxVars, cbVars, batchVars,
                   dsIdx, current_results, evIdx, results, evaluator_acc,
                   evaluator_calls, obsVars>>

\* The data loader yields a batch: predict_batch computes the outputs.
EvalNextBatch ==
    /\ pc = "ev_batch"
    /\ evBatch < eval_len
    /\ evIdx' = 1
    /\ pc' = "ev_step"
    /\ UNCHANGED <<cbIdx, returned, argVars, sysVars, ctxVars, cbVars, batchVars,
                   dsIdx, current_results, evBatch, results, evaluator_acc,
                   evaluator_calls, obsVars>>

\* evaluators[evaluator_name].step(outputs, batch, self.last_activation)
EvaluatorStep ==
    /\ pc = "ev_step"
    /\ evIdx <= Len(Val(evaluators))
    /\ evaluator_acc' = [evaluator_acc EXCEPT ![Val(evaluators)[evIdx]] = @ + 1]
    /\ evaluator_calls' = CountCall(evaluator_calls, Val(evaluators)[evIdx], "step")
    /\ evIdx' = evIdx + 1
    /\ UNCHANGED <<pc, cbIdx, returned, argVars, sysVars, ctxVars, cbVars, batchVars,
                   dsIdx, current_results, evBatch, results, obsVars>>

\* Every evaluator has seen the batch: the data loader advances.
EvalBatchDone ==
    /\ pc = "ev_step"
    /\ evIdx > Len(Val(evaluators))
    /\ evBatch' = evBatch + 1
    /\ pc' = "ev_batch"
    /\ UNCHANGED <<cbIdx, returned, argVars, sysVars, ctxVars, cbVars, batchVars,
                   dsIdx, current_results, evIdx, results, evaluator_acc,
                   evaluator_calls, obsVars>>

\* The data loader is exhausted: results = {} and the calculate loop starts.
EvalCalcBegin ==
    /\ pc = "ev_batch"
    /\ evBatch >= eval_len
    /\ results' = <<>>
    /\ evIdx' = 1
    /\ pc' = "ev_calc"
    /\ UNCHANGED <<cbIdx, returned, argVars, sysVars, ctxVars, cbVars, batchVars,
                   dsIdx, current_results, evBatch, evaluator_acc,
                   evaluator_calls, obsVars>>

\* What an evaluator's calculate() returns: its name and the number of
\* batches it accumulated since its last reset.
CalculateResult(e, acc) == [evaluator |-> e, batches |-> acc]

\* results[evaluator_name] = evaluators[evaluator_name].calculate()
EvaluatorCalculate ==
    /\ pc = "ev_calc"
    /\ evIdx <= Len(Val(evaluators))
    /\ LET e == Val(evaluators)[evIdx] IN
          /\ results' = (e :> CalculateResult(e, evaluator_acc[e])) @@ results
          /\ evaluator_calls' = CountCall(evaluator_calls, e, "calculate")
    /\ evIdx' = evIdx + 1
    /\ UNCHANGED <<pc, cbIdx, returned, argVars, sysVars, ctxVars, cbVars, batchVars,
                   dsIdx, current_results, evBatch, evaluator_acc, obsVars>>

\* evaluate returns results: to the caller, or into current_results under
\* the dataset's name.
EvaluateReturn ==
    /\ pc = "ev_calc"
    /\ evIdx > Len(Val(evaluators))
    /\ IF entry = "evaluate"
       THEN /\ pc' = "done"
            /\ returned' = Some(results)
            /\ UNCHANGED <<dsIdx, current_results>>
       ELSE /\ current_results' =
                  (Val(evaluation_data_loaders)[dsIdx] :> results) @@ current_results
            /\ dsIdx' = dsIdx + 1
            /\ pc' = "for_dataset"
            /\ UNCHANGED returned
    /\ UNCHANGED <<cbIdx, argVars, sysVars, ctxVars, cbVars, batchVars,
                   evIdx, evBatch, results, evaluator_acc, evaluator_calls, obsVars>>

\* A variant that appends one entry per evaluated dataset.
HistoryAppendPerDataset(history, epoch_results) ==
    history \o [j \in 1..Cardinality(DOMAIN epoch_results) |-> epoch_results]

\* self.training_context['_results_history'].append(current_results)
HistoryAppend(history, epoch_results) == Append(history, epoch_results)

\* All data loaders are evaluated: the epoch's results are appended to the
\* history and on_evaluation_end is next.
AppendResults ==
    /\ pc = "for_dataset"
    /\ dsIdx > Len(Val(evaluation_data_loaders))
    /\ _results_history' = HistoryAppend(_results_history, current_results)
    /\ pc' = "on_evaluation_end" /\ cbIdx' = 1
    /\ UNCHANGED <<returned, argVars, sysVars, cbVars, batchVars, evalVars, obsVars,
                   stop_training, _current_epoch, current_batch, current_output,
                   current_loss>>

\* -------------------------------------------- System.train_on_multi_gpus
\* assert torch.cuda.is_available() fails.
MultiGpuAssertFail ==
    /\ pc = "train_on_multi_gpus"
    /\ ~cuda_available
    /\ pc' = "raised"
    /\ UNCHANGED <<cbIdx, returned, argVars, sysVars, ctxVars, cbVars, batchVars,
                   evalVars, obsVars>>

\* The assertion holds: the model is wrapped in DataParallel and the current
\* device saved.
MultiGpuWrap ==
    /\ pc = "train_on_multi_gpus"
    /\ cuda_available
    /\ model' = [model EXCEPT !.wrapped = TRUE]
    /\ temp_device' = Some(_device)
    /\ pc' = "mg_to"
    /\ UNCHANGED <<cbIdx, returned, argVars, _device, ctxVars, cbVars, batchVars,
                   evalVars, obsVars>>

\* The device train_on_multi_gpus moves the system to.
MultiGpuTarget(output_device) ==
    IF output_device # None THEN Val(output_device) ELSE "cuda"

\* self.to(...) succeeds and train is called.
MultiGpuTo ==
    /\ pc = "mg_to"
    /\ model' = To(model, MultiGpuTarget(multi_gpu_output_device))
    /\ _device' = MultiGpuTarget(multi_gpu_output_device)
    /\ pc' = "train"
    /\ UNCHANGED <<cbIdx, returned, argVars, temp_device, ctxVars, cbVars,
                   batchVars, evalVars, obsVars>>

\* The value train_on_multi_gpus returns.
MultiGpuReturn(result) == None

\* train returned: the model is unwrapped and moved back to the saved device.
MultiGpuRestore ==
    /\ pc = "mg_restore"
    /\ model' = To([model EXCEPT !.wrapped = FALSE], Val(temp_device))
    /\ _device' = Val(temp_device)
    /\ returned' = MultiGpuReturn(run_result)
    /\ pc' = "done"
    /\ UNCHANGED <<cbIdx, argVars, temp_device, ctxVars, cbVars, batchVars,
                   evalVars, obsVars>>

\* ------------------------- System.save_model_state / load_model_state
\* The key nn.Module.state_dict() gives a parameter: nn.DataParallel holds
\* the model as its sub-module "module", so every key gains "module.".
StateDictKey(wrapped, k) == IF wrapped THEN ModulePrefix \o k ELSE k

\* self.model.state_dict()
StateDict(wrapped, params) ==
    [k2 \in {StateDictKey(wrapped, k) : k \in DOMAIN params} |->
        params[CHOOSE k \in DOMAIN params : StateDictKey(wrapped, k) = k2]]

\* A variant that keeps the key as it is.
KeepKey(k) == k

\* k[len('module.'):]
StripModulePrefix(k) == SubSeq(k, Len(ModulePrefix) + 1, Len(k))

\* 'module.' + k
AddModulePrefix(k) == ModulePrefix \o k

\* The model_state save_model_state writes.
SavedModelState(wrapped, state_dict) ==
    IF wrapped
    THEN [k2 \in {StripModulePrefix(k) : k \in DOMAIN state_dict} |->
             state_dict[CHOOSE k \in DOMAIN state_dict : StripModulePrefix(k) = k2]]
    ELSE state_dict

\* The model_state load_model_state hands to load_state_dict.
LoadedModelState(wrapped, file_state) ==
    IF wrapped
    THEN [k2 \in {AddModulePrefix(k) : k \in DOMAIN file_state} |->
             file_state[CHOOSE k \in DOMAIN file_state : AddModulePrefix(k) = k2]]
    ELSE file_state

\* What load_state_dict reports for a model with state_dict `own` given
\* `given`.
InvalidKeys(own, given) ==
    [missing_keys |-> DOMAIN own \ DOMAIN given,
     unexpected_keys |-> DOMAIN given \ DOMAIN own]

NoInvalidKeys == [missing_keys |-> {}, unexpected_keys |-> {}]

\* save_model_state writes the model's state, without the "module." prefix
\* of a wrapped model; the file is then loaded.
SaveModelState ==
    /\ pc = "save_model_state"
    /\ saved_file' =
          Some(SavedModelState(model.wrapped,
                               StateDict(model.wrapped, TrainedParams(param_keys))))
    /\ pc' = "load_model_state"
    /\ UNCHANGED <<cbIdx, returned, entry, train_data_loader,
                   gradient_accumulation_steps, evaluation_data_loaders,
                   evaluators, eval_len, cuda_available, multi_gpu_output_device,
                   pre_device, callbacks_given, param_keys, strict, loader,
                   model_state, invalid_keys, sysVars, ctxVars, cbVars,
                   batchVars, evalVars, obsVars>>

\* The parameters of the loading model after load_state_dict copied every
\* given value whose key it owns.
ParamsAfterLoad(wrapped, params, given) ==
    [k \in DOMAIN params |->
        IF StateDictKey(wrapped, k) \in DOMAIN given
        THEN given[StateDictKey(wrapped, k)] ELSE params[k]]

\* load_model_state reads the file, prefixes the keys for a wrapped model
\* and calls load_state_dict, which reports the invalid keys; the call
\* returns them.
LoadModelState ==
    /\ pc = "load_model_state"
    /\ LET given == LoadedModelState(loader.wrapped, Val(saved_file))
           invalid == InvalidKeys(StateDict(loader.wrapped, loader.params), given)
       IN  /\ ~strict \/ invalid = NoInvalidKeys
           /\ model_state' = Some(given)
           /\ loader' = [loader EXCEPT
                            !.params = ParamsAfterLoad(loader.wrapped, @, given)]
           /\ invalid_keys' = Some(invalid)
           /\ returned' = Some(invalid)
    /\ pc' = "done"
    /\ UNCHANGED <<cbIdx, entry, train_data_loader,
                   gradient_accumulation_steps, evaluation_data_loaders,
                   evaluators, eval_len, cuda_available, multi_gpu_output_device,
                   pre_device, callbacks_given, param_keys, strict, saved_file,
                   sysVars, ctxVars, cbVars, batchVars, evalVars, obsVars>>

\* A strict load_state_dict raises on any missing or unexpected key.
LoadModelStateRaise ==
    /\ pc = "load_model_state"
    /\ LET given == LoadedModelState(loader.wrapped, Val(saved_file))
           invalid == InvalidKeys(StateDict(loader.wrapped, loader.params), given)
       IN  /\ strict /\ invalid # NoInvalidKeys
           /\ model_state' = Some(given)
    /\ pc' = "raised"
    /\ UNCHANGED <<cbIdx, returned, entry, train_data_loader,
                   gradient_accumulation_steps, evaluation_data_loaders,
                   evaluators, eval_len, cuda_available, multi_gpu_output_device,
                   pre_device, callbacks_given, param_keys, strict, saved_file,
                   loader, invalid_keys,
                   sysVars, ctxVars, cbVars, batchVars, evalVars, obsVars>>

\* ------------------------------------------------------------ exceptions
\* The calls into collaborators that may raise: the device transfer, the
\* model's forward pass, the loss, backward, the optimizer, the evaluators.
RaisePoint ==
    \/ pc = "mg_to"
    \/ HookDone("on_batch_start")
    \/ HookDone("post_predict")
    \/ HookDone("post_loss_calculation")
    \/ HookDone("pre_optimization_step")
    \/ pc = "ev_batch" /\ evBatch < eval_len
    \/ pc = "ev_step" /\ evIdx <= Len(Val(evaluators))

\* A collaborator raises; nothing catches it, so the entry call terminates
\* with the exception, state left as it is.
Raise ==
    /\ RaisePoint
    /\ pc' = "raised"
    /\ UNCHANGED <<cbIdx, returned, argVars, sysVars, ctxVars, cbVars, batchVars,
                   evalVars, obsVars>>

\* train has returned and its caller calls it again with the same arguments,
\* the same callbacks object among them: the finished call's trainer and
\* locals are gone, the system, the evaluators and the callbacks object stay.
TrainAgain ==
    /\ pc = "done"
    /\ entry = "train"
    /\ train_calls < MaxTrainCalls
    /\ pc' = "train" /\ cbIdx' = 1
    /\ callbacks' = <<>>
    /\ returned' = None /\ run_result' = None
    /\ i' = 0 /\ perform_opt_step' = FALSE
    /\ opt_steps' = <<>> /\ backward_calls' = 0 /\ step_groups' = <<>>
    /\ batchLog' = <<>>
    /\ dsIdx' = 1 /\ current_results' = <<>>
    /\ evIdx' = 1 /\ evBatch' = 0 /\ results' = <<>>
    /\ hookLog' = <<>> /\ hookCalls' = <<>>
    /\ training_end_calls' = <<>> /\ training_start_calls' = <<>>
    /\ epochs_completed' = 0
    /\ UNCHANGED <<argVars, sysVars, ctxVars, callbacks_arg, train_calls,
                   evaluator_acc, evaluator_calls>>

Next ==
    \/ Train \/ TrainAgain \/ FireCallback \/ RunWhile \/ RunFinish \/ RunReturn
    \/ EpochSetup \/ NextBatch \/ EpochLoopEnd
    \/ Forward \/ CalculateLoss \/ Backward \/ OptBranch \/ OptimizerStep \/ BatchEnd
    \/ TrainEvaluation \/ EvalDatasetsBegin \/ ForDataset \/ AppendResults
    \/ Evaluate \/ EvaluatorReset \/ EvalBatchesBegin \/ EvalNextBatch
    \/ EvaluatorStep \/ EvalBatchDone \/ EvalCalcBegin \/ EvaluatorCalculate
    \/ EvaluateReturn
    \/ MultiGpuAssertFail \/ MultiGpuWrap \/ MultiGpuTo \/ MultiGpuRestore
    \/ SaveModelState \/ LoadModelState \/ LoadModelStateRaise
    \/ Raise

Spec == Init /\ [][Next]_vars

\* ================================================================ claims
\* A run of the training engine has been entered (the trainer exists).
RunStarted == callbacks # <<>>
\* run() has returned to its caller.
RunReturned == run_result # None

CeilDiv(a, b) == (a + b - 1) \div b

\* C1: for every accumulation count k >= 1 and every number of batches
\* n >= 1, one epoch makes ceil(n / k) optimizer.step() calls.
C1_StepsPerEpochIsCeil ==
    (pc = "on_epoch_end" /\ train_data_loader >= 1)
        => Len(opt_steps) = CeilDiv(train_data_loader, gradient_accumulation_steps)

\* The batch indices of an epoch of n batches at which the accumulation
\* policy places an optimization boundary.
BoundaryBatches(n, k) == {j \in 0..(n - 1) : j % k = 0 \/ j = n - 1}

C3_StopHaltsEpochs ==
    [][ /\ (stop_training /\ RunStarted /\ ~RunReturned) =>
              /\ _current_epoch' = _current_epoch
              /\ (pc' = "on_epoch_start" => pc = "on_epoch_start")
        /\ \A j \in 1..Len(training_end_calls') : training_end_calls'[j] <= 1
        /\ RunReturned' =>
              /\ Len(training_end_calls') = Len(callbacks')
              /\ \A j \in 1..Len(callbacks') : training_end_calls'[j] = 1
      ]_vars

C3_Witness ==
    /\ RunReturned
    /\ stop_training
    /\ _current_epoch = 1
    /\ Len(callbacks) = 2
    /\ training_end_calls = <<1, 1>>

\* The hook points of batch idx, and of the batches idx .. n - 1.
BatchHookSeq(idx, k, n) ==
    <<"on_batch_start", "post_predict", "post_loss_calculation",
      "post_backward_calculation">>
    \o (IF idx % k = 0 \/ idx = n - 1 THEN <<"pre_optimization_step">> ELSE <<>>)
    \o <<"on_batch_end">>

RECURSIVE BatchesHookSeq(_, _, _)
BatchesHookSeq(idx, k, n) ==
    IF idx >= n THEN <<>>
    ELSE BatchHookSeq(idx, k, n) \o BatchesHookSeq(idx + 1, k, n)

\* The hook points of one whole epoch.
EpochHookSeq(n, k, evaluation) ==
    <<"on_epoch_start">> \o BatchesHookSeq(0, k, n) \o <<"on_epoch_end">>
    \o (IF evaluation THEN <<"on_evaluation_start", "on_evaluation_end">> ELSE <<>>)

\* The hook points from the start of the last epoch to the end of the run
\* (from the start of the run when no epoch ran).
LastEpochHookSeq ==
    (IF _current_epoch = -1 THEN <<"on_training_start">>
     ELSE EpochHookSeq(train_data_loader, gradient_accumulation_steps,
                       evaluation_data_loaders # None /\ evaluators # None))
    \o <<"on_training_end">>

\* C4: the hook points fire in the fixed order: on_training_start once and
\* first; per epoch on_epoch_start, every batch's hooks, on_epoch_end, then
\* on_evaluation_start and on_evaluation_end only if evaluation is
\* configured; on_training_end after the last epoch and nothing after it.
C4_HookOrder ==
    RunStarted =>
        /\ hookLog \in Prefixes(LastEpochHookSeq)
        /\ _current_epoch >= 0 =>
              \A j \in 1..Len(callbacks) : training_start_calls[j] = 1
        /\ (AtWhile /\ _current_epoch >= 0) =>
              hookLog = SubSeq(LastEpochHookSeq, 1, Len(LastEpochHookSeq) - 1)
        /\ RunReturned => hookLog = LastEpochHookSeq

C4_Witness ==
    /\ RunReturned
    /\ _current_epoch = 1
    /\ train_data_loader = 2
    /\ evaluation_data_loaders # None /\ evaluators # None
    /\ Len(hookLog) = 17

\* The events of one batch step.
BatchEventSeq(boundary) ==
    <<"on_batch_start", "forward", "post_predict", "loss",
      "post_loss_calculation", "backward", "post_backward_calculation">>
    \o (IF boundary
        THEN <<"pre_optimization_step", "optimizer.step", "optimizer.zero_grad">>
        ELSE <<>>)
    \o <<"on_batch_end">>

InBatchStep == pc \in BatchHooks

\* C5: every batch step runs on_batch_start, forward, post_predict, loss,
\* post_loss_calculation, backward, post_backward_calculation, then exactly
\* on an optimization boundary pre_optimization_step, optimizer.step(),
\* optimizer.zero_grad(), and finally on_batch_end.
C5_BatchStepOrder ==
    LET boundary ==
            \/ i % gradient_accumulation_steps = 0
            \/ i = train_data_loader - 1
    IN  /\ InBatchStep => batchLog \in Prefixes(BatchEventSeq(boundary))
        /\ HookDone("on_batch_end") => batchLog = BatchEventSeq(boundary)

C5_Witness ==
    /\ HookDone("on_batch_end")
    /\ i = 1 /\ train_data_loader = 3 /\ gradient_accumulation_steps = 2
    /\ Len(batchLog) = 8

C5_WitnessBoundary ==
    /\ HookDone("on_batch_end")
    /\ i = 2 /\ gradient_accumulation_steps = 2
    /\ Len(batchLog) = 11

\* The code is between the start of an epoch and the end of its
\* on_epoch_end loop.
InEpochTraining ==
    pc \in {"on_epoch_start", "for_batch", "on_epoch_end"} \cup BatchHooks

\* C6: the results history never has more entries than epochs completed;
\* with both evaluation collaborators supplied it has one entry per epoch
\* whose evaluation has finished: none for the epoch still training, one per
\* epoch at every loop test and in what run returns.
C6_HistoryLength ==
    RunStarted =>
        /\ Len(_results_history) <= epochs_completed
        /\ EvaluationConfigured =>
              /\ Len(_results_history) >= epochs_completed - 1
              /\ InEpochTraining =>
                    /\ Len(_results_history) = _current_epoch
                    /\ epochs_completed = _current_epoch
              /\ (AtWhile \/ pc = "on_training_end") =>
                    /\ Len(_results_history) = _current_epoch + 1
                    /\ epochs_completed = _current_epoch + 1
              /\ RunReturned => Len(Val(run_result)) = _current_epoch + 1

C6_Witness ==
    /\ RunReturned
    /\ EvaluationConfigured
    /\ _current_epoch = 1
    /\ Len(Val(run_result)) = 2

\* The caller passed no stopping criterion.
NoCriterionGiven ==
    \/ callbacks_given = None
    \/ \A j \in 1..Len(Val(callbacks_given)) :
           ~IsStoppingCriterion(Val(callbacks_given)[j])

C7_WitnessNone ==
    /\ RunReturned
    /\ callbacks_given = None
    /\ ~EvaluationConfigured
    /\ Val(run_result) = <<>>

InEvaluate == pc \in {"ev_reset", "ev_batch", "ev_step", "ev_calc"}

MultiGpuLeft ==
    entry = "train_on_multi_gpus" /\ RunStarted /\ pc \in {"done", "raised"}

\* C9: train_on_multi_gpus leaves the system on the device it was on before
\* the call on every exit path, normal return or exception.
C9_DeviceRestoredOnEveryExit ==
    MultiGpuLeft => (_device = pre_device /\ model.device = pre_device)

\* C10: train_on_multi_gpus returns the list of per-epoch results that the
\* delegated train call returned.
C10_MultiGpuReturnsHistory ==
    (entry = "train_on_multi_gpus" /\ pc = "done") => returned = run_result

\* C11: gradient_accumulation_steps = k is the number of backward calls
\* before an optimization step: every optimizer.step() of an epoch closes a
\* group of exactly k backward calls, except that the step of the epoch's
\* last batch may close a shorter group.
C11_StepClosesKBackwards ==
    \A j \in 1..Len(step_groups) :
        \/ step_groups[j] = gradient_accumulation_steps
        \/ /\ opt_steps[j] = train_data_loader - 1
           /\ step_groups[j] <= gradient_accumulation_steps

\* The code is inside an epoch: in _train_epoch or _train_evaluation, not at
\* the loop test of run.
InEpoch ==
    /\ RunStarted
    /\ ~AtWhile
    /\ pc \in {"on_epoch_start", "for_batch", "on_epoch_end", "on_evaluation_start",
               "for_dataset", "ev_reset", "ev_batch", "ev_step", "ev_calc",
               "on_evaluation_end"} \cup BatchHooks

\* C12: the halt flag is read only between epochs: with the flag set inside
\* an epoch the run does not leave the epoch for on_training_end or return,
\* and whenever the on_training_end loop is entered it is from the loop test
\* with the flag set, after every batch of the last epoch ran its full batch
\* step, on_epoch_end fired and the evaluation phase, if configured, ran.
C12_StopReadBetweenEpochs ==
    [][ /\ (stop_training /\ InEpoch) =>
              pc' \notin {"on_training_end", "done", "mg_restore"}
        /\ (pc' = "on_training_end" /\ pc # "on_training_end") =>
              /\ AtWhile
              /\ stop_training
              /\ _current_epoch >= 0 =>
                    /\ i = train_data_loader
                    /\ hookLog = EpochHookSeq(train_data_loader,
                                              gradient_accumulation_steps,
                                              EvaluationConfigured)
                    /\ epochs_completed = _current_epoch + 1
                    /\ EvaluationConfigured =>
                          Len(_results_history) = _current_epoch + 1
      ]_vars

\* The flag was raised by on_epoch_start or a batch hook of this epoch, and
\* the epoch's batches have all run.
C12_Witness ==
    /\ stop_training
    /\ pc = "on_epoch_end" /\ cbIdx = 1
    /\ i = 2 /\ train_data_loader = 2
    /\ EvaluationConfigured

\* C13: when run returns normally, after any number of epochs (none when
\* the flag was raised during on_training_start) and with or without
\* evaluation, the model is in inference mode and the value returned is the
\* context's results history.
C13_RunLeavesInferenceMode ==
    RunReturned =>
        /\ ~model.training
        /\ run_result = Some(_results_history)
        /\ entry = "train" => returned = Some(_results_history)

\* An epoch ran without evaluation, so only run itself left training mode.
C13_Witness ==
    /\ RunReturned
    /\ ~EvaluationConfigured
    /\ _current_epoch = 0 /\ train_data_loader = 1
    /\ ~model.training

C13_WitnessNoEpoch ==
    /\ RunReturned
    /\ _current_epoch = -1
    /\ ~model.training
    /\ returned = Some(<<>>)

\* train_on_multi_gpus was left by an exception before train was called:
\* the CUDA assertion or the move to the target device failed.
MultiGpuTransferFailed ==
    entry = "train_on_multi_gpus" /\ pc = "raised" /\ ~RunStarted

\* C14: a device-transfer failure in train_on_multi_gpus is raised before
\* anything is mutated: the model is still the unwrapped model, the device
\* is unchanged and no training hook has fired.
C14_TransferFailureMutatesNothing ==
    MultiGpuTransferFailed =>
        /\ ~model.wrapped
        /\ model.device = pre_device /\ _device = pre_device
        /\ hookLog = <<>>

\* The key k begins with "module.".
HasModulePrefix(k) ==
    Len(k) >= Len(ModulePrefix) /\ SubSeq(k, 1, Len(ModulePrefix)) = ModulePrefix

\* load_model_state has been left, by return or by exception.
LoadLeft == entry = "save_model_state" /\ pc \in {"done", "raised"}

\* C15: save_model_state then load_model_state with strict = true gives no
\* missing and no unexpected key, whether or not the saving and the loading
\* system wrap their model in DataParallel: the saved keys are the keys of
\* the unwrapped model (the replication prefix is not carried: no saved key
\* begins with "module." unless a key of the model itself does), the loaded
\* keys are those of the loading system's model, and the loaded parameters
\* are the saved ones.
C15_SaveLoadRoundTrip ==
    entry = "save_model_state" =>
        /\ saved_file # None =>
              /\ Val(saved_file) = TrainedParams(param_keys)
              /\ (\A k \in param_keys : ~HasModulePrefix(k)) =>
                    \A k \in DOMAIN Val(saved_file) : ~HasModulePrefix(k)
        /\ (LoadLeft /\ strict /\ DOMAIN loader.params = param_keys) =>
              /\ pc = "done"
              /\ returned = Some([missing_keys |-> {}, unexpected_keys |-> {}])
              /\ DOMAIN Val(model_state) =
                    {StateDictKey(loader.wrapped, k) : k \in DOMAIN loader.params}
              /\ loader.params = TrainedParams(param_keys)

C15_Witness ==
    /\ entry = "save_model_state" /\ pc = "done"
    /\ strict
    /\ model.wrapped /\ ~loader.wrapped
    /\ param_keys = {WeightKey, BiasKey}
    /\ returned = Some([missing_keys |-> {}, unexpected_keys |-> {}])
    /\ loader.params = TrainedParams(param_keys)

C15_WitnessWrappedLoader ==
    /\ entry = "save_model_state" /\ pc = "done"
    /\ strict
    /\ ~model.wrapped /\ loader.wrapped
    /\ param_keys = {ModulePrefix \o WeightKey}
    /\ loader.params = TrainedParams(param_keys)

\* C16: when no callbacks are passed to train, the default callback is
\* NumberOfEpochsStoppingCriterionCallback(10), stopping after the 10th epoch.
C16_DefaultIsTenEpochs ==
    (RunStarted /\ callbacks_given = None) =>
        callbacks = <<NumberOfEpochsStoppingCriterionCallback(10)>>

\* A callback is being called, or is about to be called, at hook h.
HookFiring(h) == pc = h /\ cbIdx <= Len(callbacks)

LossHooks ==
    {"post_loss_calculation", "post_backward_calculation",
     "pre_optimization_step", "on_batch_end"}

\* C17: _current_epoch is -1 until the first epoch starts (on_training_start
\* included); it changes only by +1, at the start of an epoch and before that
\* epoch's on_epoch_start fires; during every hook of the e-th epoch (its
\* evaluation hooks included) it is e, and during on_training_end it is the
\* number of epochs run minus 1.
C17_EpochCounter ==
    /\ [](RunStarted =>
            /\ pc = "on_training_start" =>
                  _current_epoch = -1 /\ epochs_completed = 0
            /\ InEpochTraining => _current_epoch = epochs_completed
            /\ pc \in {"on_evaluation_start", "on_evaluation_end", "on_training_end"} =>
                  _current_epoch = epochs_completed - 1)
    /\ [][(RunStarted /\ _current_epoch' # _current_epoch) =>
            /\ AtWhile
            /\ _current_epoch' = _current_epoch + 1
            /\ pc' = "on_epoch_start" /\ cbIdx' = 1
            /\ hookLog' = <<>>]_vars

\* the second epoch's evaluation hooks see epoch index 1
C17_Witness ==
    /\ HookFiring("on_evaluation_end")
    /\ _current_epoch = 1
    /\ epochs_completed = 2

\* on_training_end after two epochs sees epoch index 1
C17_WitnessTrainingEnd ==
    HookFiring("on_training_end") /\ _current_epoch = 1

\* C18: at every hook, current_batch is set exactly during on_batch_start,
\* current_output exactly during post_predict, current_loss exactly from
\* post_loss_calculation through on_batch_end; at the hooks outside a batch
\* step all three are None.
C18_TransientSlots ==
    (RunStarted /\ pc \in HookNames) =>
        /\ current_batch # None <=> pc = "on_batch_start"
        /\ current_output # None <=> pc = "post_predict"
        /\ current_loss # None <=> pc \in LossHooks
        /\ pc = "on_batch_start" => current_batch = Some(i)

\* the second batch of an epoch reaches on_batch_end with its loss published
C18_Witness ==
    /\ HookFiring("on_batch_end")
    /\ i = 1
    /\ current_loss # None /\ current_batch = None /\ current_output = None

\* a hook outside the batch step, after an epoch that had batches
C18_WitnessOutsideBatch ==
    /\ HookFiring("on_epoch_end")
    /\ i = 2
    /\ current_loss = None

\* C19: stop_training is false when the context is created; within a run the
\* engine never writes it: it changes only while a callback is called, never
\* goes back to false, and once it is true the next between-epoch check ends
\* the run.
C19_StopTrainingMonotonic ==
    /\ []((RunStarted /\ pc = "on_training_start" /\ cbIdx = 1) => ~stop_training)
    /\ [][RunStarted =>
            /\ stop_training => stop_training'
            /\ stop_training' # stop_training =>
                  /\ HookFiring(pc)
                  /\ pc \in HookNames
                  /\ pc' = pc /\ cbIdx' = cbIdx + 1
            /\ (stop_training /\ AtWhile) => pc' = "on_training_end"]_vars

\* a flag raised by a stopping criterion is still raised at the between-epoch
\* check that follows an epoch's evaluation
C19_Witness ==
    /\ HookDone("on_evaluation_end")
    /\ stop_training
    /\ \E cb \in Range(callbacks) : cb = StoppingCriterionCallback

EvaluationLabels ==
    {"on_evaluation_start", "for_dataset", "ev_reset", "ev_batch", "ev_step",
     "ev_calc", "on_evaluation_end"}

\* C20: in a training run, if the evaluation data loaders or the evaluators
\* are None the evaluation phase never happens: no evaluation hook fires,
\* evaluate is not called and the history stays empty; if both are given, the
\* history grows only by one entry per epoch, appended after
\* on_evaluation_start and before on_evaluation_end, and the entry's keys are
\* exactly the evaluation dataset names.
C20_EvaluationPhase ==
    /\ []((RunStarted /\ pc # "raised") =>
            /\ (evaluation_data_loaders = None \/ evaluators = None) =>
                  /\ pc \notin EvaluationLabels
                  /\ "on_evaluation_start" \notin Range(hookLog)
                  /\ "on_evaluation_end" \notin Range(hookLog)
                  /\ evaluator_calls = NoCalls
                  /\ _results_history = <<>>
            /\ (evaluation_data_loaders # None /\ evaluators # None) =>
                  /\ \A j \in 1..Len(_results_history) :
                        DOMAIN _results_history[j] = Range(Val(evaluation_data_loaders))
                  /\ (InEpochTraining \/ pc \in EvaluationLabels \ {"on_evaluation_end"}) =>
                        Len(_results_history) = _current_epoch
                  /\ (pc = "on_evaluation_end" \/ pc = "while") =>
                        Len(_results_history) = _current_epoch + 1)
    /\ [][(RunStarted /\ _results_history' # _results_history) =>
            /\ pc = "for_dataset"
            /\ pc' = "on_evaluation_end" /\ cbIdx' = 1
            /\ Len(_results_history') = Len(_results_history) + 1
            /\ SubSeq(_results_history', 1, Len(_results_history)) = _results_history
            /\ hookLog # <<>>
            /\ hookLog[Len(hookLog)] = "on_evaluation_start"
            /\ hookLog' = hookLog]_vars

\* the second epoch's entry is in place when on_evaluation_end fires, keyed by
\* both dataset names
C20_Witness ==
    /\ HookFiring("on_evaluation_end")
    /\ Len(_results_history) = 2
    /\ DOMAIN _results_history[2] = {"val", "test"}

\* a run without evaluators finishes two epochs with an empty history
C20_WitnessSkipped ==
    /\ RunReturned
    /\ evaluation_data_loaders # None /\ evaluators = None
    /\ epochs_completed = 2
    /\ _results_history = <<>>

\* The calls of one hook point: callbacks cbs[1..n] in list order.
HookPointCalls(hook, cbs, n) == [j \in 1..n |-> [hook |-> hook, callback |-> cbs[j]]]

\* The calls of the hook points hooks[1..m], every one complete but the last,
\* which has reached `last` callbacks.
RECURSIVE CallsInListOrder(_, _, _, _)
CallsInListOrder(hooks, m, cbs, last) ==
    IF m = 0 THEN <<>>
    ELSE CallsInListOrder(hooks, m - 1, cbs, Len(cbs))
            \o HookPointCalls(hooks[m], cbs, last)

\* C21: at every hook point the callbacks are called in the order of the
\* callbacks list, all of them before any callback is called at the next
\* hook point, and a default criterion injected by the engine is the last
\* of the list.
C21_CallbacksInListOrder ==
    RunStarted =>
        /\ hookCalls =
              CallsInListOrder(hookLog, Len(hookLog), callbacks,
                               IF cbIdx = 1 THEN Len(callbacks) ELSE cbIdx - 1)
        /\ callbacks_given # None =>
              SubSeq(callbacks, 1, Len(Val(callbacks_given))) = Val(callbacks_given)
        /\ (callbacks_given = None
              \/ \A j \in 1..Len(Val(callbacks_given)) :
                    Val(callbacks_given)[j].type = "TrainingCallback") =>
              /\ callbacks[Len(callbacks)] = NumberOfEpochsStoppingCriterionCallback(1)
              /\ callbacks_given # None => Len(callbacks) = Len(Val(callbacks_given)) + 1

\* on_batch_end has been fired on a registered callback and then on the
\* injected criterion, in that order
C21_Witness ==
    /\ HookDone("on_batch_end")
    /\ callbacks_given = Some(<<TrainingCallback>>)
    /\ Len(hookCalls) >= 4
    /\ hookCalls[Len(hookCalls) - 1] = [hook |-> "on_batch_end", callback |-> TrainingCallback]
    /\ hookCalls[Len(hookCalls)] =
          [hook |-> "on_batch_end", callback |-> NumberOfEpochsStoppingCriterionCallback(1)]

\* two registered callbacks, the first called and the second not yet
C21_WitnessMidHook ==
    /\ pc = "post_predict" /\ cbIdx = 2
    /\ callbacks_given = Some(<<TrainingCallback, StoppingCriterionCallback>>)

\* The model mode inside an epoch's training part and inside evaluate.
ModeInsideEpoch ==
    /\ InEpochTraining => model.training
    /\ InEvaluate => ~model.training

\* C22: during a training run the model is in training mode during every
\* batch step of every epoch and at on_epoch_end, also in an epoch that
\* follows an evaluation phase; evaluate leaves the model in inference mode,
\* so the model is in inference mode at on_evaluation_end.
C22_ModeDuringRun ==
    (RunStarted /\ entry \in Training) =>
        /\ ModeInsideEpoch
        /\ pc = "on_evaluation_end" => ~model.training

\* C22, amended: as C22, but the model is in inference mode at
\* on_evaluation_end exactly when evaluate was called in that phase, that is
\* when the evaluation data-loader mapping is not empty; with an empty
\* mapping the phase runs without a call of evaluate and the model is still
\* in training mode at on_evaluation_end.
C22_ModeDuringRunAmended ==
    (RunStarted /\ entry \in Training) =>
        /\ ModeInsideEpoch
        /\ pc = "for_dataset" => (model.training <=> dsIdx = 1)
        /\ pc = "on_evaluation_end" =>
              (model.training <=> Val(evaluation_data_loaders) = <<>>)

\* a batch step of the second epoch, after an evaluation phase that called
\* evaluate
C22_Witness ==
    /\ HookFiring("on_batch_start")
    /\ _current_epoch = 1
    /\ EvaluationConfigured
    /\ Val(evaluation_data_loaders) # <<>>
    /\ model.training

\* on_evaluation_end after evaluate ran on two datasets
C22_WitnessEvaluationEnd ==
    /\ HookFiring("on_evaluation_end")
    /\ Len(Val(evaluation_data_loaders)) = 2
    /\ ~model.training

\* on_evaluation_end of a phase with an empty data-loader mapping
C22_WitnessEmptyMapping ==
    /\ HookFiring("on_evaluation_end")
    /\ Val(evaluation_data_loaders) = <<>>
    /\ model.training

\* The caller's original list holds a stopping criterion of some kind.
GivenHoldsCriterion ==
    \E j \in 1..Len(Val(callbacks_given)) :
        Val(callbacks_given)[j].type \in
            {"StoppingCriterionCallback", "NumberOfEpochsStoppingCriterionCallback"}

\* C23: the default criterion is injected in place into the caller's list and
\* at most once: after any number of train calls passing the same list, a
\* list that held no stopping criterion holds its original callbacks in
\* their order followed by exactly one injected criterion, and a list that
\* held a stopping criterion is as it was given.
C23_InjectionInPlaceOnce ==
    (entry \in Training /\ callbacks_given # None) =>
        /\ callbacks_arg # None
        /\ RunStarted => callbacks = Val(callbacks_arg)
        /\ GivenHoldsCriterion => callbacks_arg = callbacks_given
        /\ ~GivenHoldsCriterion =>
              callbacks_arg =
                  IF train_calls = 0 THEN callbacks_given
                  ELSE Some(Val(callbacks_given)
                               \o <<NumberOfEpochsStoppingCriterionCallback(1)>>)

\* the second call has built its trainer on the list the first call completed
C23_Witness ==
    /\ train_calls = 2
    /\ pc = "on_training_start"
    /\ callbacks_given = Some(<<TrainingCallback>>)
    /\ callbacks = <<TrainingCallback, NumberOfEpochsStoppingCriterionCallback(1)>>

\* the second call on a list that came with its own criterion
C23_WitnessOwnCriterion ==
    /\ train_calls = 2
    /\ RunReturned
    /\ callbacks_given =
          Some(<<NumberOfEpochsStoppingCriterionCallback(MaxEpochs), TrainingCallback>>)

====
